---- MODULE Spec2Model ----
(***************************************************************************)
(* The benchmark toolbar of vspreview (toolbars/benchmark.py) as a state   *)
(* machine: the BenchmarkToolbar object's fields, the Qt timers and        *)
(* widgets it drives, and the frame source's futures.  Every handler       *)
(* (button click, timer timeout, done-callback) is one action; the calls a *)
(* handler makes (run, abort, update_info, set_ui_editable, the nested     *)
(* click) are operators on a record of the whole state, composed as the    *)
(* code composes them.                                                     *)
(*                                                                         *)
(* An exception ends the handler that raised it where it was raised: what  *)
(* the handler had assigned so far stays and the event loop goes on.  The  *)
(* record carries the exception's name in `raised`, and the text of the    *)
(* info label in `info_label`, while a handler is computed; it also        *)
(* carries what the handler meets outside the toolbar: the Clear cache     *)
(* setting, whether vs_clear_cache() fails, and how many of the futures it *)
(* requests next have resolved before their callback is registered.        *)
(*                                                                         *)
(* Handlers execute one at a time: a done-callback is taken as one step    *)
(* with the resolution of its future.                                      *)
(***************************************************************************)
EXTENDS Integers, Sequences, FiniteSets, TLC

\* Bounds of the model.
MaxEndFrame == 2    \* end_frame of the current output: frames 0..MaxEndFrame
MaxCpus == 2        \* get_usable_cpus_count()
MaxRuns == 2        \* number of times Run is pressed
MaxErrors == 1      \* number of requests that resolve with an error
MaxElapsed == 1     \* perf_counter() - run_start_time saturates here
MaxRequests == 4    \* requests of a run taken statement by statement

\* f"{fps:.4f}": fps is shown with four decimals.
FpsScale == 10000

VARIABLES
    \* BenchmarkToolbar fields (benchmark.py 136-150)
    running, unsequenced, buffer, buffer_maxlen,
    start_frame, end_frame, total_frames, frames_left,
    sequenced_timer, update_info_timer,
    \* perf_counter() - run_start_time, in clock ticks (0: below the
    \* resolution of the timedelta that TimeInterval(seconds=...) builds)
    elapsed,
    \* the 'stop' posted to update_info_timer with Qt.QueuedConnection
    stop_queued,
    \* widgets
    run_abort_checked, controls_enabled, unsequenced_enabled,
    prefetch_checked, unsequenced_checked,
    start_frame_control, end_frame_control, total_frames_control,
    \* the frame source: every future get_frame_async returned and is still
    \* referenced, and the machine's usable cpu count
    reqs,
    \* bookkeeping of the run: its number, its concurrent_requests_count,
    \* whether no request was pending when it started, whether Abort was
    \* pressed during it, and the number of requests that resolved with an
    \* error
    run_id, concurrency, clean_start, user_aborted, errors,
    \* the threads executing run() and the done-callbacks statement by
    \* statement: the position of each and what it has read
    threads,
    \* values of core/types.py: two Frame objects, a FrameInterval, a Time
    \* (in microseconds, the resolution of timedelta), the fps_num and fps_den
    \* of the output, and the exception the last operation raised
    frame_a, frame_b, interval, time, fps_num, fps_den, exception,
    \* a TimeEdit of widgets/custom/edits.py: the QTime it shows, and a Time
    \* set into it or read from it, as the seconds and microseconds fields of
    \* its timedelta
    td, qtime

vars == <<running, unsequenced, buffer, buffer_maxlen, start_frame, end_frame,
          total_frames, frames_left, sequenced_timer, update_info_timer,
          elapsed, stop_queued, run_abort_checked, controls_enabled,
          unsequenced_enabled, prefetch_checked, unsequenced_checked,
          start_frame_control, end_frame_control,
          total_frames_control, reqs, run_id, concurrency, clean_start,
          user_aborted,
          errors, threads, frame_a, frame_b, interval, time, fps_num,
          fps_den, exception, td, qtime>>

\* the values of core/types.py, and the TimeEdit
values == <<frame_a, frame_b, interval, time, fps_num, fps_den, exception,
            td, qtime>>

\* what the handlers of the toolbar, taken one at a time, leave alone
others == <<threads, values>>

\* The whole state as one record, the `self` the operators below work on.
Self ==
    [running |-> running, unsequenced |-> unsequenced, buffer |-> buffer,
     buffer_maxlen |-> buffer_maxlen, start_frame |-> start_frame,
     end_frame |-> end_frame, total_frames |-> total_frames,
     frames_left |-> frames_left, sequenced_timer |-> sequenced_timer,
     update_info_timer |-> update_info_timer, elapsed |-> elapsed,
     stop_queued |-> stop_queued, run_abort_checked |-> run_abort_checked,
     controls_enabled |-> controls_enabled,
     unsequenced_enabled |-> unsequenced_enabled,
     prefetch_checked |-> prefetch_checked,
     unsequenced_checked |-> unsequenced_checked,
     start_frame_control |-> start_frame_control,
     end_frame_control |-> end_frame_control,
     total_frames_control |-> total_frames_control,
     reqs |-> reqs, run_id |-> run_id,
     concurrency |-> concurrency, clean_start |-> clean_start,
     user_aborted |-> user_aborted,
     errors |-> errors,
     info_label |-> <<>>, raised |-> "none",
     clear_cache_enabled |-> FALSE, clear_cache_fails |-> FALSE,
     done_at_registration |-> 0]

\* The toolbar after a handler that left `s`.
Toolbar(s) ==
    /\ running' = s.running
    /\ unsequenced' = s.unsequenced
    /\ buffer' = s.buffer
    /\ buffer_maxlen' = s.buffer_maxlen
    /\ start_frame' = s.start_frame
    /\ end_frame' = s.end_frame
    /\ total_frames' = s.total_frames
    /\ frames_left' = s.frames_left
    /\ sequenced_timer' = s.sequenced_timer
    /\ update_info_timer' = s.update_info_timer
    /\ elapsed' = s.elapsed
    /\ stop_queued' = s.stop_queued
    /\ run_abort_checked' = s.run_abort_checked
    /\ controls_enabled' = s.controls_enabled
    /\ unsequenced_enabled' = s.unsequenced_enabled
    /\ prefetch_checked' = s.prefetch_checked
    /\ unsequenced_checked' = s.unsequenced_checked
    /\ start_frame_control' = s.start_frame_control
    /\ end_frame_control' = s.end_frame_control
    /\ total_frames_control' = s.total_frames_control
    /\ reqs' = s.reqs
    /\ run_id' = s.run_id
    /\ concurrency' = s.concurrency
    /\ clean_start' = s.clean_start
    /\ user_aborted' = s.user_aborted
    /\ errors' = s.errors

\* The state after a handler that left `s`.
Becomes(s) == Toolbar(s) /\ UNCHANGED others

Raise(s, exc) == [s EXCEPT !.raised = exc]

\* the larger of the two for the smaller
Largest(a, b) == IF a < b THEN b ELSE a

\* min()
Min(a, b) == IF a < b THEN a ELSE b

(***************************************************************************)
(* core/types.py: the wrapper value types.  A Frame or FrameInterval is    *)
(* its integer value; ValueError stands for the exception Frame.__init__   *)
(* raises.                                                                 *)
(***************************************************************************)
ValueError == -1

\* Frame.__init__ on an int
Frame(init_value) == IF init_value < 0 THEN ValueError ELSE init_value

\* Frame.__add__(FrameInterval)
Frame_add(self, other) == Frame(self + other)

\* Frame.__sub__(FrameInterval)
Frame_sub(self, other) == Frame(self - other)

\* FrameInterval.__iadd__ and __isub__
FrameInterval_iadd(self, other) == self + other
FrameInterval_isub(self, other) == self - other

\* YAMLObjectWrapper.__eq__, __gt__, __ne__, __le__, __ge__ and __lt__
Wrapper_eq(self, other) == self = other
Wrapper_gt(self, other) == self > other
Wrapper_ne(self, other) == ~Wrapper_eq(self, other)
Wrapper_le(self, other) == ~Wrapper_gt(self, other)
Wrapper_ge(self, other) == Wrapper_eq(self, other) \/ Wrapper_gt(self, other)
\* __lt__ as the negation of __gt__ (of __ge__ in the source)
Wrapper_lt_not_gt(self, other) == ~Wrapper_gt(self, other)
Wrapper_lt(self, other) == ~Wrapper_ge(self, other)

\* Frame.__sub__(Frame): a FrameInterval, of either sign
Frame_sub_Frame(self, other) == self - other

\* Frame.__iadd__ and Frame.__isub__: in place, the value is not checked
Frame_iadd(self, other) == self + other
Frame_isub(self, other) == self - other

\* FrameInterval.__add__ and __sub__
FrameInterval_add(self, other) == self + other
FrameInterval_sub(self, other) == self - other

(***************************************************************************)
(* core/types.py: Output's conversions between frames and times.  The      *)
(* floats of the source are exact fractions [n, d] here, kept in lowest    *)
(* terms; a Time is the whole number of microseconds its timedelta holds.  *)
(***************************************************************************)
\* timedelta counts microseconds
Microseconds == 1000000

Abs(n) == IF n < 0 THEN -n ELSE n

RECURSIVE GCD(_, _)
GCD(a, b) == IF b = 0 THEN a ELSE GCD(b, a % b)

\* the float n / d, d > 0
Float(n, d) ==
    LET g == GCD(Abs(n), d)
    IN  [n |-> n \div g, d |-> d \div g]

\* float * float and float / float
Float_mul(x, y) ==
    LET g1 == GCD(Abs(x.n), y.d)
        g2 == GCD(Abs(y.n), x.d)
    IN  [n |-> (x.n \div g1) * (y.n \div g2),
         d |-> (x.d \div g2) * (y.d \div g1)]

Float_truediv(x, y) ==
    IF y.n < 0 THEN Float_mul(x, [n |-> -y.d, d |-> -y.n])
    ELSE Float_mul(x, [n |-> y.d, d |-> y.n])

\* round(): to the nearest integer, a tie goes to the even one
round(x) ==
    LET q == x.n \div x.d
        r == x.n - q * x.d
    IN  IF 2 * r < x.d THEN q
        ELSE IF 2 * r > x.d THEN q + 1
        ELSE IF q % 2 = 0 THEN q ELSE q + 1

\* Output.fps = fps_num / fps_den
Output_fps(num, den) == Float(num, den)

\* Output._calculate_frame
calculate_frame(seconds, fps) == round(Float_mul(seconds, fps))

\* Output._calculate_seconds: frame_num / (self.fps or 1)
calculate_seconds(frame_num, fps) ==
    Float_truediv(Float(frame_num, 1), IF fps.n = 0 THEN Float(1, 1) ELSE fps)

\* timedelta(seconds=...): rounded to a whole number of microseconds
timedelta(seconds) == round(Float_mul(seconds, Float(Microseconds, 1)))

\* Time.__float__: timedelta.total_seconds()
Time_float(self) == Float(self, Microseconds)

\* Output.to_frame
to_frame(t, fps) == Frame(calculate_frame(Time_float(t), fps))

\* Output.to_time
to_time(frame, fps) == timedelta(calculate_seconds(frame, fps))

(***************************************************************************)
(* utils/utils.py: to_qtime and from_qtime.  They read the fields seconds  *)
(* and microseconds of the Time's timedelta, so a Time is the record of    *)
(* those two fields here (days = 0: a time of day).  A QTime is its        *)
(* milliseconds since the start of the day, or NullTime when invalid.      *)
(***************************************************************************)
NullTime == -1

\* QTime(h, m, s, ms): invalid unless every component is in its range
QTime(h, m, s, ms) ==
    IF h \in 0..23 /\ m \in 0..59 /\ s \in 0..59 /\ ms \in 0..999
    THEN (h * 3600 + m * 60 + s) * 1000 + ms
    ELSE NullTime

\* QTime.msecsSinceStartOfDay(): 0 for an invalid time
msecsSinceStartOfDay(self) == IF self = NullTime THEN 0 ELSE self

\* the components to_qtime hands to QTime
to_qtime_components(value) ==
    [h |-> value.seconds \div 3600, m |-> value.seconds \div 60,
     s |-> value.seconds % 60, ms |-> value.microseconds \div 1000]

\* utils.to_qtime
to_qtime(value) ==
    LET c == to_qtime_components(value)
    IN  QTime(c.h, c.m, c.s, c.ms)

\* timedelta(milliseconds=...)
timedelta_milliseconds(milliseconds) ==
    [seconds |-> milliseconds \div 1000,
     microseconds |-> (milliseconds % 1000) * 1000]

\* utils.from_qtime
from_qtime(self) == timedelta_milliseconds(msecsSinceStartOfDay(self))

(***************************************************************************)
(* BenchmarkToolbar: the frame to request next,                            *)
(* self.end_frame + FrameInterval(1) - self.frames_left.                   *)
(***************************************************************************)
NextFrame(s) ==
    LET next == Frame_add(s.end_frame, 1)
    IN  IF next = ValueError THEN ValueError
        ELSE Frame_sub(next, s.frames_left)

(***************************************************************************)
(* The frame source.  A future is a record: the run that requested it, the *)
(* frame index, its state (pending, ok, err), who requested it (fill,      *)
(* tick, callback) and what the toolbar holds of it: "queued" in the       *)
(* deque, a done "callback" registered on it, "consumed" (popped, or its   *)
(* callback called), "evicted" (pushed out of the bounded deque).          *)
(***************************************************************************)
\* deque() has no maxlen
None == 0

\* clip.get_frame_async(int(frame)): the new future is the last of s.reqs
get_frame_async(s, frame, use, by) ==
    [s EXCEPT !.reqs = Append(@, [run |-> s.run_id, idx |-> frame,
                                  st |-> "pending", use |-> use, by |-> by])]

\* deque.appendleft(future): a full bounded deque drops its right end
appendleft(s, future) ==
    IF s.buffer_maxlen # None /\ Len(s.buffer) >= s.buffer_maxlen
    THEN LET out == s.buffer[Len(s.buffer)] IN
         [s EXCEPT !.buffer = <<future>> \o SubSeq(@, 1, Len(@) - 1),
                   !.reqs[out].use = "evicted"]
    ELSE [s EXCEPT !.buffer = <<future>> \o @]

\* round(frames_done * FpsScale / run_time): the fps the label shows
Fps(frames_done, run_time) ==
    (2 * frames_done * FpsScale + run_time) \div (2 * run_time)

\* BenchmarkToolbar.update_info
update_info(s) ==
    LET run_time == s.elapsed
        frames_done == FrameInterval_sub(s.total_frames, s.frames_left)
    IN  IF run_time = 0
        THEN Raise(s, "ZeroDivisionError")
        ELSE [s EXCEPT !.info_label =
                 <<frames_done, s.total_frames, run_time,
                   Fps(frames_done, run_time)>>]

\* BenchmarkToolbar.set_ui_editable
set_ui_editable(s, new_state) ==
    [s EXCEPT !.controls_enabled = new_state,
              !.unsequenced_enabled = new_state]

\* BenchmarkToolbar.on_prefetch_changed
on_prefetch_changed(s, checked) ==
    IF checked
    THEN [s EXCEPT !.unsequenced_enabled = TRUE]
    ELSE [s EXCEPT !.unsequenced_checked = FALSE,
                   !.unsequenced_enabled = FALSE]

(***************************************************************************)
(* BenchmarkToolbar: run, abort and the two dispatch steps.  They call     *)
(* each other (a dispatch step aborts, abort clicks the button, the click  *)
(* runs or aborts), as the operators do.                                   *)
(***************************************************************************)
RECURSIVE abort(_)
RECURSIVE run(_)

\* self.frames_left -= FrameInterval(1) on an object that is
\* self.total_frames itself (no deepcopy in run())
frames_left_isub_shared(s) ==
    [s EXCEPT !.frames_left = FrameInterval_isub(@, 1),
              !.total_frames = FrameInterval_isub(@, 1)]

\* self.frames_left -= FrameInterval(1): in place, on the copy of
\* total_frames that run() made with deepcopy
frames_left_isub(s) ==
    [s EXCEPT !.frames_left = FrameInterval_isub(@, 1)]

\* _request_next_frame_unsequenced counting a frame only when a resolved
\* future is handed in, not when run() fills the pipeline
request_next_frame_counting_completions(s, future) ==
    IF Wrapper_le(s.frames_left, 0)
    THEN abort(s)
    ELSE
        LET next_frame == NextFrame(s)
            s1 == IF ~s.running THEN s
                  ELSE IF next_frame = ValueError THEN Raise(s, "ValueError")
                  ELSE get_frame_async(s, next_frame, "callback",
                           IF future = None THEN "fill" ELSE "callback")
        IN  IF s1.raised # "none" THEN s1
            ELSE IF future = None THEN s1
            ELSE IF s1.reqs[future].st = "err"
            THEN Raise(s1, "DecodeError")
            ELSE [s1 EXCEPT !.frames_left = FrameInterval_isub(@, 1)]

RECURSIVE request_next_frame_unsequenced(_, _)

\* Future.add_done_callback(self._request_next_frame_unsequenced): a future
\* that has resolved already calls the callback there and then, and what the
\* callback raises is logged and dropped
add_done_callback(s, future) ==
    IF s.done_at_registration = 0 THEN s
    ELSE
        LET s1 == [s EXCEPT !.done_at_registration = @ - 1,
                            !.reqs[future].st = "ok",
                            !.reqs[future].use = "consumed"]
        IN  [request_next_frame_unsequenced(s1, future)
                EXCEPT !.raised = "none"]

\* BenchmarkToolbar._request_next_frame_unsequenced(future); run() calls it
\* with no future
request_next_frame_unsequenced(s, future) ==
    IF Wrapper_le(s.frames_left, 0)
    THEN abort(s)
    ELSE
        LET next_frame == NextFrame(s)
            s1 == IF ~s.running THEN s
                  ELSE IF next_frame = ValueError THEN Raise(s, "ValueError")
                  ELSE add_done_callback(
                           get_frame_async(s, next_frame, "callback",
                               IF future = None THEN "fill" ELSE "callback"),
                           Len(s.reqs) + 1)
        IN  IF s1.raised # "none" THEN s1
            ELSE IF future # None /\ s1.reqs[future].st = "err"
            THEN Raise(s1, "DecodeError")
            ELSE frames_left_isub(s1)

\* _request_next_frame_sequenced going on while frames_left is not negative
\* (< for <=)
request_next_frame_sequenced_past_zero(s) ==
    IF Wrapper_lt(s.frames_left, 0)
    THEN abort(s)
    ELSE IF Len(s.buffer) = 0
    THEN Raise(s, "IndexError")
    ELSE
        LET future == s.buffer[Len(s.buffer)]
            s1 == [s EXCEPT !.buffer = SubSeq(@, 1, Len(@) - 1),
                            !.reqs[future].use = "consumed"]
            next_frame == NextFrame(s)
        IN  IF s.reqs[future].st = "err" THEN Raise(s1, "DecodeError")
            ELSE IF next_frame = ValueError THEN Raise(s1, "ValueError")
            ELSE
                LET s2 == IF Wrapper_le(next_frame, s1.end_frame)
                          THEN appendleft(
                                   get_frame_async(s1, next_frame, "queued",
                                                   "tick"),
                                   Len(s1.reqs) + 1)
                          ELSE s1
                IN  [s2 EXCEPT !.frames_left = FrameInterval_isub(@, 1)]

\* _request_next_frame_sequenced requesting only frames after start_frame
\* (next_frame > self.start_frame for next_frame <= self.end_frame)
request_next_frame_sequenced_skipping_start(s) ==
    IF Wrapper_le(s.frames_left, 0)
    THEN abort(s)
    ELSE IF Len(s.buffer) = 0
    THEN Raise(s, "IndexError")
    ELSE
        LET future == s.buffer[Len(s.buffer)]
            s1 == [s EXCEPT !.buffer = SubSeq(@, 1, Len(@) - 1),
                            !.reqs[future].use = "consumed"]
            next_frame == NextFrame(s)
        IN  IF s.reqs[future].st = "err" THEN Raise(s1, "DecodeError")
            ELSE IF next_frame = ValueError THEN Raise(s1, "ValueError")
            ELSE
                LET s2 == IF Wrapper_gt(next_frame, s1.start_frame)
                          THEN appendleft(
                                   get_frame_async(s1, next_frame, "queued",
                                                   "tick"),
                                   Len(s1.reqs) + 1)
                          ELSE s1
                IN  [s2 EXCEPT !.frames_left = FrameInterval_isub(@, 1)]

\* BenchmarkToolbar._request_next_frame_sequenced
request_next_frame_sequenced(s) ==
    IF Wrapper_le(s.frames_left, 0)
    THEN abort(s)
    ELSE IF Len(s.buffer) = 0
    THEN Raise(s, "IndexError")
    ELSE
        LET future == s.buffer[Len(s.buffer)]
            s1 == [s EXCEPT !.buffer = SubSeq(@, 1, Len(@) - 1),
                            !.reqs[future].use = "consumed"]
            next_frame == NextFrame(s)
        IN  IF s.reqs[future].st = "err" THEN Raise(s1, "DecodeError")
            ELSE IF next_frame = ValueError THEN Raise(s1, "ValueError")
            ELSE
                LET s2 == IF Wrapper_le(next_frame, s1.end_frame)
                          THEN appendleft(
                                   get_frame_async(s1, next_frame, "queued",
                                                   "tick"),
                                   Len(s1.reqs) + 1)
                          ELSE s1
                IN  frames_left_isub(s2)

\* BenchmarkToolbar.on_run_abort_pressed
on_run_abort_pressed(s, checked) ==
    IF checked
    THEN run(set_ui_editable(s, FALSE))
    ELSE abort(set_ui_editable(s, TRUE))

\* QPushButton.click() on the checkable run_abort_button: toggles it and
\* emits clicked(checked)
click(s) ==
    LET s1 == [s EXCEPT !.run_abort_checked = ~@]
    IN  on_run_abort_pressed(s1, s1.run_abort_checked)

\* abort() clicking the button without asking whether it is checked
abort_clicking_always(s) ==
    LET s1 == IF s.running THEN update_info(s) ELSE s
    IN  IF s1.raised # "none" THEN s1
        ELSE click([s1 EXCEPT !.running = FALSE, !.stop_queued = TRUE])

\* BenchmarkToolbar.abort
abort(s) ==
    LET s1 == IF s.running THEN update_info(s) ELSE s
    IN  IF s1.raised # "none" THEN s1
        ELSE
            LET s2 == [s1 EXCEPT !.running = FALSE, !.stop_queued = TRUE]
            IN  IF s2.run_abort_checked THEN click(s2) ELSE s2

\* the loop of run(): for offset in range(n)
RECURSIVE fill(_, _, _)
fill(s, offset, n) ==
    IF offset >= n \/ s.raised # "none" THEN s
    ELSE IF s.unsequenced
    THEN fill(request_next_frame_unsequenced(s, None), offset + 1, n)
    ELSE
        LET frame == Frame_add(s.start_frame, offset)
        IN  fill(appendleft(get_frame_async(s, frame, "queued", "fill"),
                            Len(s.reqs) + 1),
                 offset + 1, n)

\* self.buffer = deque([], 1), whatever the count
new_buffer_of_one(s, maxlen) ==
    [s EXCEPT !.buffer = <<>>, !.buffer_maxlen = 1,
              !.reqs = [i \in DOMAIN @ |->
                           IF @[i].use = "queued"
                           THEN [@[i] EXCEPT !.use = "dropped"] ELSE @[i]]]

\* self.buffer = deque([], concurrent_requests_count): the old deque and
\* the futures in it are let go
new_buffer(s, maxlen) ==
    [s EXCEPT !.buffer = <<>>, !.buffer_maxlen = maxlen,
              !.reqs = [i \in DOMAIN @ |->
                           IF @[i].use = "queued"
                           THEN [@[i] EXCEPT !.use = "dropped"] ELSE @[i]]]

\* utils.get_usable_cpus_count(): the machine has MaxCpus usable cpus
get_usable_cpus_count == MaxCpus

\* utils.vs_clear_cache(): get_frame(0) of the output raises, or does not
vs_clear_cache(s) ==
    IF s.clear_cache_fails THEN Raise(s, "Error") ELSE s

\* run() with the cache cleared after the pipeline has been filled
run_clearing_cache_late(s) ==
    LET concurrent_requests_count ==
            IF s.prefetch_checked THEN get_usable_cpus_count ELSE 1
        s1 == [s EXCEPT !.start_frame = s.start_frame_control,
                        !.end_frame = s.end_frame_control,
                        !.total_frames = s.total_frames_control,
                        !.frames_left = s.total_frames_control,
                        !.unsequenced = s.unsequenced_checked,
                        !.run_id = @ + 1,
                        !.concurrency = concurrent_requests_count,
                        !.clean_start =
                            \A i \in DOMAIN s.reqs :
                                s.reqs[i].st # "pending",
                        !.user_aborted = FALSE]
        s2 == IF ~s1.unsequenced
              THEN [new_buffer(s1, concurrent_requests_count)
                       EXCEPT !.sequenced_timer = TRUE]
              ELSE s1
        s3 == [s2 EXCEPT !.running = TRUE, !.elapsed = 0]
        s4 == fill(s3, 0, Min(s3.frames_left, concurrent_requests_count))
        s5 == IF s4.clear_cache_enabled THEN vs_clear_cache(s4) ELSE s4
    IN  IF s5.raised # "none" THEN s5
        ELSE [s5 EXCEPT !.update_info_timer = TRUE]

\* BenchmarkToolbar.run
run(s) ==
    LET s0 == IF s.clear_cache_enabled THEN vs_clear_cache(s) ELSE s
        concurrent_requests_count ==
            IF s.prefetch_checked THEN get_usable_cpus_count ELSE 1
        s1 == [s0 EXCEPT !.start_frame = s.start_frame_control,
                        !.end_frame = s.end_frame_control,
                        !.total_frames = s.total_frames_control,
                        !.frames_left = s.total_frames_control,
                        !.unsequenced = s.unsequenced_checked,
                        !.run_id = @ + 1,
                        !.concurrency = concurrent_requests_count,
                        !.clean_start =
                            \A i \in DOMAIN s.reqs :
                                s.reqs[i].st # "pending",
                        !.user_aborted = FALSE]
        s2 == IF ~s1.unsequenced
              THEN [new_buffer(s1, concurrent_requests_count)
                       EXCEPT !.sequenced_timer = TRUE]
              ELSE s1
        s3 == [s2 EXCEPT !.running = TRUE, !.elapsed = 0]
        s4 == fill(s3, 0, Min(s3.frames_left, concurrent_requests_count))
    IN  IF s0.raised # "none" THEN s0
        ELSE IF s4.raised # "none" THEN s4
        ELSE [s4 EXCEPT !.update_info_timer = TRUE]

\* QSpinBox.setValue: the value is brought into [minimum, maximum]
setValue(value, minimum, maximum) ==
    IF value < minimum THEN minimum
    ELSE IF value > maximum THEN maximum ELSE value

\* Only the edited control takes the value: the other two are not adjusted
update_controls_edited_only(s, which, value) ==
    [s EXCEPT
        !.start_frame_control = IF which = "start" THEN value ELSE @,
        !.end_frame_control = IF which = "end" THEN value ELSE @,
        !.total_frames_control = IF which = "total" THEN value ELSE @]

\* BenchmarkToolbar.update_controls(start=value), (end=value) or
\* (total=value); main.current_output.end_frame is MaxEndFrame
update_controls(s, which, value) ==
    LET out_end == MaxEndFrame
        new ==
            IF which = "start" THEN
                LET start == value
                    end == IF Wrapper_gt(start, s.end_frame_control)
                           THEN start ELSE s.end_frame_control
                IN  [start |-> start, end |-> end,
                     total |-> FrameInterval_add(
                                   Frame_sub_Frame(end, start), 1)]
            ELSE IF which = "end" THEN
                LET end == value
                    start == IF Wrapper_lt(end, s.start_frame_control)
                             THEN end ELSE s.start_frame_control
                IN  [start |-> start, end |-> end,
                     total |-> FrameInterval_add(
                                   Frame_sub_Frame(end, start), 1)]
            ELSE
                LET total == value
                    start == s.start_frame_control
                    old_total == FrameInterval_add(
                                     Frame_sub_Frame(s.end_frame_control,
                                                     start), 1)
                    delta == FrameInterval_sub(total, old_total)
                    end == Frame_iadd(s.end_frame_control, delta)
                IN  IF Wrapper_gt(end, out_end)
                    THEN [start |-> Frame_isub(start,
                                        Frame_sub_Frame(end, out_end)),
                          end |-> out_end, total |-> total]
                    ELSE [start |-> start, end |-> end, total |-> total]
    IN  [s EXCEPT
            !.start_frame_control = setValue(new.start, 0, out_end),
            !.end_frame_control = setValue(new.end, 0, out_end),
            !.total_frames_control = setValue(new.total, 1, out_end + 1)]

\* Futures nothing refers to any more are freed: those of an earlier run
\* that have resolved and are neither in the deque nor awaited by a
\* callback.  Of the other futures of an earlier run only the state and the
\* holder are kept: nothing reads the frame they were requested for.
Freed(s, r) ==
    /\ r.run < s.run_id
    /\ r.st # "pending"
    /\ r.use \in {"consumed", "evicted", "dropped"}

Kept(s, r) ==
    IF r.run < s.run_id
    THEN [run |-> r.run, st |-> r.st, use |-> r.use]
    ELSE r

collect(s) ==
    LET live(i) == Cardinality({j \in 1..i : ~Freed(s, s.reqs[j])})
        left == SelectSeq(s.reqs, LAMBDA r : ~Freed(s, r))
    IN  [s EXCEPT !.reqs = [i \in DOMAIN left |-> Kept(s, left[i])],
                  !.buffer = [k \in DOMAIN @ |-> live(@[k])]]

(***************************************************************************)
(* The state after BenchmarkToolbar.__init__ and setup_ui: nothing runs,   *)
(* Prefetch and Unsequenced are checked, the range controls hold frame 0.  *)
(***************************************************************************)
Toolbar_init ==
    /\ running = FALSE
    /\ unsequenced = FALSE
    /\ buffer = <<>>
    /\ buffer_maxlen = None
    /\ start_frame = 0
    /\ end_frame = 0
    /\ total_frames = 0
    /\ frames_left = 0
    /\ sequenced_timer = FALSE
    /\ update_info_timer = FALSE
    /\ elapsed = MaxElapsed
    /\ stop_queued = FALSE
    /\ run_abort_checked = FALSE
    /\ controls_enabled = TRUE
    /\ unsequenced_enabled = TRUE
    /\ prefetch_checked = TRUE
    /\ unsequenced_checked = TRUE
    /\ start_frame_control = 0
    /\ end_frame_control = 0
    /\ total_frames_control = 1
    /\ reqs = <<>>
    /\ run_id = 0
    /\ concurrency = 0
    /\ clean_start = TRUE
    /\ user_aborted = FALSE
    /\ errors = 0
    /\ threads = <<>>

\* No Frame, FrameInterval or Time is held outside the toolbar; the output
\* plays one frame a second.
Init ==
    /\ Toolbar_init
    /\ frame_a = 0
    /\ frame_b = 0
    /\ interval = 0
    /\ time = 0
    /\ fps_num = 1
    /\ fps_den = 1
    /\ exception = "none"
    /\ td = [seconds |-> 0, microseconds |-> 0]
    /\ qtime = 0

\* The user edits the start, end or total frame control: valueChanged
EditRange ==
    /\ controls_enabled
    /\ run_id < MaxRuns
    /\ \E which \in {"start", "end", "total"} :
         \E value \in 0..(MaxEndFrame + 1) :
            /\ which = "start" =>
                   value <= MaxEndFrame /\ value # start_frame_control
            /\ which = "end" =>
                   value <= MaxEndFrame /\ value # end_frame_control
            /\ which = "total" =>
                   value >= 1 /\ value # total_frames_control
            /\ Becomes(collect(update_controls(Self, which, value)))

\* The user toggles the Prefetch checkbox: stateChanged
TogglePrefetch ==
    /\ controls_enabled
    /\ run_id < MaxRuns
    /\ Becomes(collect(on_prefetch_changed(
           [Self EXCEPT !.prefetch_checked = ~@], ~prefetch_checked)))

\* The user toggles the Unsequenced checkbox (nothing is connected to it)
ToggleUnsequenced ==
    /\ unsequenced_enabled
    /\ run_id < MaxRuns
    /\ Becomes(collect([Self EXCEPT !.unsequenced_checked = ~@]))

\* The user clicks the button while it shows Run; Clear cache is set or not
\* in the settings, and vs_clear_cache() would fail or not
PressRun ==
    /\ ~run_abort_checked
    /\ run_id < MaxRuns
    /\ \E enabled \in BOOLEAN : \E fails \in BOOLEAN :
           Becomes(collect(click(
               [Self EXCEPT !.clear_cache_enabled = enabled,
                            !.clear_cache_fails = fails])))

\* The user clicks the button while it is checked
PressAbort ==
    /\ run_abort_checked
    /\ Becomes(collect(click([Self EXCEPT !.user_aborted = TRUE])))

\* What a future can resolve to: a frame, or (MaxErrors times) an error
Outcomes == {"ok"} \cup (IF errors < MaxErrors THEN {"err"} ELSE {})

set_result(s, i, st) ==
    [s EXCEPT !.reqs[i].st = st,
              !.errors = IF st = "err" THEN @ + 1 ELSE @]

\* A worker thread of the frame source resolves a future no callback is
\* registered on (one the deque holds or held)
Resolve ==
    \E i \in DOMAIN reqs : \E st \in Outcomes :
        /\ reqs[i].st = "pending"
        /\ reqs[i].use # "callback"
        /\ Becomes(collect(set_result(Self, i, st)))

\* A worker thread of the frame source resolves a future a callback is
\* registered on: Future.set_result calls the callback there and then
Completed ==
    \E i \in DOMAIN reqs : \E st \in Outcomes :
        /\ reqs[i].st = "pending"
        /\ reqs[i].use = "callback"
        /\ Becomes(collect(request_next_frame_unsequenced(
               [set_result(Self, i, st) EXCEPT !.reqs[i].use = "consumed"],
               i)))

\* buffer.pop().result() blocks until the future at the right end of the
\* deque has resolved; nothing blocks when the step aborts or pop() raises
ResultReady ==
    IF Wrapper_le(frames_left, 0) THEN TRUE
    ELSE IF Len(buffer) = 0 THEN TRUE
    ELSE reqs[buffer[Len(buffer)]].st # "pending"

\* sequenced_timer.timeout
SequencedTimeout ==
    /\ sequenced_timer
    /\ ResultReady
    /\ Becomes(collect(request_next_frame_sequenced(Self)))

\* update_info_timer.timeout
UpdateInfoTimeout ==
    /\ update_info_timer
    /\ Becomes(collect(update_info(Self)))

\* The event loop delivers the queued 'stop' to update_info_timer
StopDelivered ==
    /\ stop_queued
    /\ Becomes(collect([Self EXCEPT !.update_info_timer = FALSE,
                                    !.stop_queued = FALSE]))

\* perf_counter() advances
ClockTick ==
    /\ elapsed < MaxElapsed
    /\ Becomes(collect([Self EXCEPT !.elapsed = @ + 1]))

Next ==
    \/ EditRange
    \/ TogglePrefetch
    \/ ToggleUnsequenced
    \/ PressRun
    \/ PressAbort
    \/ Resolve
    \/ Completed
    \/ SequencedTimeout
    \/ UpdateInfoTimeout
    \/ StopDelivered
    \/ ClockTick

Spec == Init /\ [][Next]_vars

\* The frame source resolves every request it was given, the event loop
\* delivers every timeout and queued call, and the clock advances.  The
\* user is under no obligation.
LiveSpec ==
    /\ Init /\ [][Next]_vars
    /\ WF_vars(Resolve)
    /\ WF_vars(Completed)
    /\ WF_vars(SequencedTimeout)
    /\ WF_vars(StopDelivered)
    /\ WF_vars(ClockTick)

(***************************************************************************)
(* An Unsequenced run statement by statement.  Thread 0 is the GUI thread  *)
(* in the loop of run(); thread i is the worker thread of the frame source *)
(* that resolved future i and executes its done-callback.  Each holds the  *)
(* line of _request_next_frame_unsequenced it is about to execute, the     *)
(* offset and bound of the loop (thread 0), and the value of frames_left   *)
(* it has read for the decrement.  A run makes MaxRequests requests at     *)
(* most: a thread about to make one more waits.  Any                       *)
(* thread takes the next step: the interpreter switches threads between    *)
(* statements, and between the read and the write of                       *)
(* `self.value -= other.value` in FrameInterval.__isub__.                  *)
(***************************************************************************)
Thread(pc, future, offset, n) ==
    [pc |-> pc, future |-> future, offset |-> offset, n |-> n, value |-> 0]

\* a thread ends
Ended(t) == [k \in (DOMAIN threads) \ {t} |-> threads[k]]

\* _request_next_frame_unsequenced returns: a callback ends its thread, the
\* loop of run() goes to its next round or on to line 282
Return(t) ==
    IF t # 0 THEN Ended(t)
    ELSE IF threads[t].offset + 1 < threads[t].n
    THEN [threads EXCEPT ![t] = Thread("L314", None, @.offset + 1, @.n)]
    ELSE [threads EXCEPT ![t] = Thread("L282", None, @.offset + 1, @.n)]

At(t, line) == t \in DOMAIN threads /\ threads[t].pc = line

\* lines 257-272 of run(), after the click: the GUI thread enters the loop
RunStarts ==
    /\ run_id = 0
    /\ \E start \in 0..MaxEndFrame : \E end \in start..MaxEndFrame :
         \E prefetch \in BOOLEAN :
            LET s0 == [Self EXCEPT !.start_frame_control = start,
                                   !.end_frame_control = end,
                                   !.total_frames_control =
                                       FrameInterval_add(
                                           Frame_sub_Frame(end, start), 1),
                                   !.prefetch_checked = prefetch,
                                   !.unsequenced_checked = TRUE,
                                   !.run_abort_checked = TRUE]
                s1 == set_ui_editable(s0, FALSE)
                c == IF prefetch THEN get_usable_cpus_count ELSE 1
                s2 == [s1 EXCEPT !.start_frame = s1.start_frame_control,
                                 !.end_frame = s1.end_frame_control,
                                 !.total_frames = s1.total_frames_control,
                                 !.frames_left = s1.total_frames_control,
                                 !.unsequenced = s1.unsequenced_checked,
                                 !.run_id = @ + 1,
                                 !.concurrency = c,
                                 !.running = TRUE,
                                 !.elapsed = 0]
            IN  /\ Toolbar(s2)
                /\ threads' = (0 :> Thread("L314", None, 0,
                                            Min(s2.frames_left, c)))
    /\ UNCHANGED values

\* the frame source resolves a future in one of its worker threads, which
\* goes on to call the done-callback
CallbackStarts ==
    \E i \in DOMAIN reqs :
        /\ reqs[i].st = "pending"
        /\ reqs[i].use = "callback"
        /\ Toolbar([set_result(Self, i, "ok")
                       EXCEPT !.reqs[i].use = "consumed"])
        /\ threads' = (i :> Thread("L314", i, 0, 0)) @@ threads
        /\ UNCHANGED values

\* line 314: if self.frames_left <= FrameInterval(0): self.abort(); return
Line314 ==
    \E t \in DOMAIN threads :
        /\ At(t, "L314")
        /\ IF Wrapper_le(frames_left, 0)
           THEN Toolbar(abort(Self)) /\ threads' = Return(t)
           ELSE /\ Toolbar(Self)
                /\ threads' = [threads EXCEPT ![t].pc = "L318"]
        /\ UNCHANGED values

\* lines 318-323: if self.running, the read of self.frames_left for
\* next_frame, get_frame_async(int(next_frame)) and add_done_callback
Line319 ==
    \E t \in DOMAIN threads :
        /\ At(t, "L318")
        /\ Len(reqs) < MaxRequests
        /\ IF ~running THEN
               Toolbar(Self) /\ threads' = [threads EXCEPT ![t].pc = "L325"]
           ELSE IF NextFrame(Self) = ValueError THEN
               Toolbar(Self) /\ threads' = Ended(t)
           ELSE
               /\ Toolbar(get_frame_async(Self, NextFrame(Self), "callback",
                              IF t = 0 THEN "fill" ELSE "callback"))
               /\ threads' = [threads EXCEPT ![t].pc = "L325"]
        /\ UNCHANGED values

\* lines 325-327: future.result() of the resolved future, and the read of
\* self.frames_left.value in FrameInterval.__isub__
Line327Read ==
    \E t \in DOMAIN threads :
        /\ At(t, "L325")
        /\ threads' = [threads EXCEPT ![t].pc = "L327",
                                       ![t].value = frames_left]
        /\ Toolbar(Self)
        /\ UNCHANGED values

\* line 327: the write of self.frames_left.value, and the return
Line327Write ==
    \E t \in DOMAIN threads :
        /\ At(t, "L327")
        /\ Toolbar([Self EXCEPT !.frames_left =
                        FrameInterval_isub(threads[t].value, 1)])
        /\ threads' = Return(t)
        /\ UNCHANGED values

\* lines 282-285 of run(): update_info_timer.start()
Line285 ==
    /\ At(0, "L282")
    /\ Toolbar([Self EXCEPT !.update_info_timer = TRUE])
    /\ threads' = Ended(0)
    /\ UNCHANGED values

\* perf_counter() advances while the threads run
RaceClockTick ==
    /\ run_id > 0
    /\ elapsed < MaxElapsed
    /\ Toolbar([Self EXCEPT !.elapsed = @ + 1])
    /\ UNCHANGED <<threads, values>>

RaceNext ==
    \/ RunStarts
    \/ CallbackStarts
    \/ Line314
    \/ Line319
    \/ Line327Read
    \/ Line327Write
    \/ Line285
    \/ RaceClockTick

RaceSpec == Init /\ [][RaceNext]_vars

(***************************************************************************)
(* An Unsequenced run in which a future may have resolved by the time its  *)
(* callback is registered: add_done_callback then calls                    *)
(* _request_next_frame_unsequenced inside the call that requested it.      *)
(***************************************************************************)
MaxDone == 2        \* futures in a row that resolve before registration

\* The user clicks Run with Unsequenced checked
ReentrantPressRun ==
    /\ ~run_abort_checked
    /\ run_id = 0
    /\ unsequenced_checked
    /\ \E done \in 0..MaxDone :
           Becomes(collect(click([Self EXCEPT !.done_at_registration = done])))

\* A worker thread resolves a future a callback is registered on
ReentrantCompleted ==
    \E i \in DOMAIN reqs : \E done \in 0..MaxDone :
        /\ reqs[i].st = "pending"
        /\ reqs[i].use = "callback"
        /\ Becomes(collect(request_next_frame_unsequenced(
               [set_result(Self, i, "ok") EXCEPT
                    !.reqs[i].use = "consumed",
                    !.done_at_registration = done],
               i)))

ReentrantNext ==
    \/ EditRange
    \/ TogglePrefetch
    \/ ReentrantPressRun
    \/ ReentrantCompleted
    \/ StopDelivered
    \/ ClockTick

ReentrantSpec == Init /\ [][ReentrantNext]_vars

(***************************************************************************)
(* The value types on their own: two Frame objects, frame_a and frame_b,   *)
(* a FrameInterval, a Time and an output with a frame rate.  The toolbar   *)
(* does not take part.  exception is what the last operation raised.       *)
(***************************************************************************)
MaxFrame == 4       \* largest frame number and frame interval

Frames == -MaxFrame..MaxFrame

\* clip.fps of the output: 24, 30000/1001 (NTSC), one frame every two
\* seconds, 4,000,000, 10,000,000, and 0 (variable frame rate)
Rates == {<<24, 1>>, <<30000, 1001>>, <<1, 2>>, <<4000000, 1>>,
          <<10000000, 1>>, <<0, 1>>}

Idle == UNCHANGED <<running, unsequenced, buffer, buffer_maxlen, start_frame,
                    end_frame, total_frames, frames_left, sequenced_timer,
                    update_info_timer, elapsed, stop_queued,
                    run_abort_checked, controls_enabled, unsequenced_enabled,
                    prefetch_checked, unsequenced_checked,
                    start_frame_control, end_frame_control,
                    total_frames_control, reqs, run_id, concurrency,
                    clean_start, user_aborted, errors, threads, td, qtime>>

\* frame_b = <a new Frame>, or the ValueError its constructor raises
Bind(frame) ==
    IF frame = ValueError
    THEN exception' = "ValueError" /\ UNCHANGED frame_b
    ELSE exception' = "none" /\ frame_b' = frame

TypesInit ==
    /\ Toolbar_init
    /\ frame_a = 0
    /\ frame_b = 0
    /\ interval = 0
    /\ time = 0
    /\ \E rate \in Rates : fps_num = rate[1] /\ fps_den = rate[2]
    /\ exception = "none"
    /\ td = [seconds |-> 0, microseconds |-> 0]
    /\ qtime = 0

\* frame_b = Frame(n)
NewFrame ==
    /\ \E n \in -1..MaxFrame : Bind(Frame(n))
    /\ UNCHANGED <<frame_a, interval, time, fps_num, fps_den>>
    /\ Idle

\* interval = FrameInterval(n)
NewInterval ==
    /\ \E n \in Frames : interval' = n
    /\ exception' = "none"
    /\ UNCHANGED <<frame_a, frame_b, time, fps_num, fps_den>>
    /\ Idle

\* frame_a, frame_b = frame_b, frame_a
Swap ==
    /\ frame_a' = frame_b
    /\ frame_b' = frame_a
    /\ exception' = "none"
    /\ UNCHANGED <<interval, time, fps_num, fps_den>>
    /\ Idle

\* frame_b = frame_a + interval
Add ==
    /\ Frame_add(frame_a, interval) \in Frames
    /\ Bind(Frame_add(frame_a, interval))
    /\ UNCHANGED <<frame_a, interval, time, fps_num, fps_den>>
    /\ Idle

\* frame_b = frame_a - interval
Sub ==
    /\ Frame_sub(frame_a, interval) \in Frames
    /\ Bind(Frame_sub(frame_a, interval))
    /\ UNCHANGED <<frame_a, interval, time, fps_num, fps_den>>
    /\ Idle

\* frame_a += interval
IAdd ==
    /\ Frame_iadd(frame_a, interval) \in Frames
    /\ frame_a' = Frame_iadd(frame_a, interval)
    /\ exception' = "none"
    /\ UNCHANGED <<frame_b, interval, time, fps_num, fps_den>>
    /\ Idle

\* frame_a -= interval
ISub ==
    /\ Frame_isub(frame_a, interval) \in Frames
    /\ frame_a' = Frame_isub(frame_a, interval)
    /\ exception' = "none"
    /\ UNCHANGED <<frame_b, interval, time, fps_num, fps_den>>
    /\ Idle

\* interval = frame_a - frame_b
Difference ==
    /\ Frame_sub_Frame(frame_a, frame_b) \in Frames
    /\ interval' = Frame_sub_Frame(frame_a, frame_b)
    /\ exception' = "none"
    /\ UNCHANGED <<frame_a, frame_b, time, fps_num, fps_den>>
    /\ Idle

\* time = output.to_time(frame_a)
ToTime ==
    /\ time' = to_time(frame_a, Output_fps(fps_num, fps_den))
    /\ exception' = "none"
    /\ UNCHANGED <<frame_a, frame_b, interval, fps_num, fps_den>>
    /\ Idle

\* frame_b = output.to_frame(time)
ToFrame ==
    /\ Bind(to_frame(time, Output_fps(fps_num, fps_den)))
    /\ UNCHANGED <<frame_a, interval, time, fps_num, fps_den>>
    /\ Idle

TypesNext ==
    \/ NewFrame
    \/ NewInterval
    \/ Swap
    \/ Add
    \/ Sub
    \/ IAdd
    \/ ISub
    \/ Difference
    \/ ToTime
    \/ ToFrame

TypesSpec == TypesInit /\ [][TypesNext]_vars

(***************************************************************************)
(* A TimeEdit on its own: Times are set into it and read back from it.     *)
(***************************************************************************)
\* whole seconds and microseconds of the Times set into the widget, all
\* below 24 hours
Seconds == {0, 1, 59, 60, 61, 3599, 3600, 3661, 7200, 43200, 86399}
Microsecond == {0, 999, 1000, 500000, 999999}

Apart == UNCHANGED <<running, unsequenced, buffer, buffer_maxlen, start_frame,
                     end_frame, total_frames, frames_left, sequenced_timer,
                     update_info_timer, elapsed, stop_queued,
                     run_abort_checked, controls_enabled,
                     unsequenced_enabled, prefetch_checked,
                     unsequenced_checked, start_frame_control,
                     end_frame_control, total_frames_control, reqs, run_id,
                     concurrency, clean_start, user_aborted, errors, threads,
                     frame_a, frame_b, interval, time, fps_num, fps_den,
                     exception>>

\* td = Time(seconds=..., microseconds=...).value
NewTime ==
    /\ \E seconds \in Seconds : \E microseconds \in Microsecond :
           td' = [seconds |-> seconds, microseconds |-> microseconds]
    /\ UNCHANGED qtime
    /\ Apart

\* TimeEdit.setValue(Time(td)): QTimeEdit.setTime is outside the repository;
\* handed an invalid QTime it either keeps the time it shows or takes it
TimeEdit_setValue ==
    /\ \/ qtime' = to_qtime(td)
       \/ to_qtime(td) = NullTime /\ qtime' = qtime
    /\ UNCHANGED td
    /\ Apart

\* td = TimeEdit.value().value
TimeEdit_value ==
    /\ td' = from_qtime(qtime)
    /\ UNCHANGED qtime
    /\ Apart

QTimeNext ==
    \/ NewTime
    \/ TimeEdit_setValue
    \/ TimeEdit_value

QTimeSpec == Init /\ [][QTimeNext]_vars

(***************************************************************************)
(* What the claims speak of.                                               *)
(***************************************************************************)
\* the requests of the current run, those for frame k, the frames of the run
RunReqs == {i \in DOMAIN reqs : reqs[i].run = run_id}
Requested(k) == {i \in RunReqs : reqs[i].idx = k}
Range == start_frame..end_frame
\* submitted to the frame source and not yet resolved
InFlight == {i \in DOMAIN reqs : reqs[i].st = "pending"}
Resolved == {i \in RunReqs : reqs[i].st # "pending"}
\* every request so far resolved successfully
AllOk == errors = 0

\* C1: an Unsequenced run that is not aborted and whose requests all resolve
\* successfully never requests a frame outside its range nor a frame twice,
\* and when it has completed it has made exactly total_frames requests, one
\* for every frame of the range.
C1_UnsequencedEachOnce ==
    (/\ run_id > 0 /\ unsequenced /\ ~user_aborted /\ AllOk
     /\ total_frames = end_frame - start_frame + 1) =>
        /\ \A i \in RunReqs : reqs[i].idx \in Range
        /\ \A k \in Range : Cardinality(Requested(k)) <= 1
        /\ ~running =>
            /\ Cardinality(RunReqs) = total_frames
            /\ \A k \in Range : Cardinality(Requested(k)) = 1

C1_Witness ==
    /\ run_id > 0 /\ unsequenced /\ ~user_aborted /\ AllOk /\ ~running
    /\ start_frame = 0 /\ end_frame = 2 /\ total_frames = 3
    /\ concurrency = 2
    /\ \A k \in Range : Cardinality(Requested(k)) = 1

\* C2: a Sequenced run that is not aborted and whose requests all resolve
\* successfully requests no frame of its range twice.
C2_SequencedEachOnce ==
    (run_id > 0 /\ ~unsequenced /\ ~user_aborted /\ AllOk) =>
        \A k \in Range : Cardinality(Requested(k)) <= 1

\* C3: once abort() has left the controller not running, no step adds a
\* request to that run.
C3_NoRequestAfterAbort ==
    [][(run_id > 0 /\ ~running /\ run_id' = run_id) =>
           Cardinality(RunReqs') = Cardinality(RunReqs)]_vars

\* C4: in a run started with no request pending, the requests in flight
\* never outnumber the run's concurrency.
C4_InFlightBounded ==
    (run_id > 0 /\ clean_start) => Cardinality(InFlight) <= concurrency

\* C5: in a Sequenced run with concurrency c, when frame k has been requested
\* and k - c is in the range, a request for frame k - c was issued earlier
\* and has resolved and been consumed.
C5_SequencedWindow ==
    (run_id > 0 /\ ~unsequenced) =>
        \A i \in RunReqs :
            (reqs[i].idx - concurrency) \in Range =>
                \E j \in RunReqs :
                    /\ j < i
                    /\ reqs[j].idx = reqs[i].idx - concurrency
                    /\ reqs[j].st # "pending"
                    /\ reqs[j].use = "consumed"

C5_Witness ==
    /\ run_id > 0 /\ ~unsequenced /\ concurrency = 2
    /\ \E i \in RunReqs : reqs[i].idx = start_frame + 2 /\ reqs[i].by = "tick"

\* C6: a run in progress leads to the completed state (not running, no
\* frame left, the info timer stopped), unless Abort is pressed or a request
\* resolves with an error.
Completed_state ==
    ~running /\ frames_left = 0 /\ ~update_info_timer

C6_RunCompletes ==
    running ~> (Completed_state \/ user_aborted \/ ~AllOk)

\* C7: the frames reported done never outnumber the requests of the run
\* that have resolved.
C7_DoneAtMostResolved ==
    run_id > 0 =>
        FrameInterval_sub(total_frames, frames_left) <= Cardinality(Resolved)

\* C8: polled in a run of which no request has resolved yet, update_info
\* raises nothing and reports fps = 0.
C8_FpsZeroBeforeAnyCompletion ==
    (running /\ Resolved = {}) =>
        LET polled == update_info(Self)
        IN  /\ polled.raised = "none"
            /\ polled.info_label[4] = 0

\* C9: a step in which the controller consumes a request of the run that
\* resolved with an error, frames being left, decrements frames_left by one.
ErrorsConsumed ==
    Cardinality({i \in RunReqs : reqs[i].st = "err"
                                 /\ reqs[i].use = "consumed"})

C9_ErrorCountsAsCompleted ==
    [][(run_id' = run_id /\ frames_left > 0
        /\ ErrorsConsumed' > ErrorsConsumed) =>
           frames_left' = frames_left - 1]_vars

\* C10: abort() on a controller that is not running issues no request and
\* leaves frames_left, the buffer, the frame range and running as they are,
\* and in every state a second abort() changes nothing the first one left.
Untouched(s, t) ==
    /\ t.reqs = s.reqs
    /\ t.frames_left = s.frames_left
    /\ t.buffer = s.buffer
    /\ t.start_frame = s.start_frame
    /\ t.end_frame = s.end_frame
    /\ t.total_frames = s.total_frames
    /\ t.running = s.running

C10_AbortIdempotent ==
    LET once == abort(Self)
        twice == abort(once)
    IN  /\ ~running => Untouched(Self, once)
        /\ [twice EXCEPT !.raised = "none"] = [once EXCEPT !.raised = "none"]

\* abort() has been called on a controller that had completed its run and
\* whose info timer had been stopped
C10_Witness ==
    /\ run_id > 0 /\ ~running /\ frames_left = 0 /\ Len(buffer) > 0
    /\ stop_queued /\ ~update_info_timer

C12_SerializedUpdates ==
    run_id > 0 =>
        /\ \A k \in Range : Cardinality(Requested(k)) <= 1
        /\ \A i \in RunReqs : reqs[i].idx \in Range
        /\ Wrapper_ge(frames_left, 0)

\* C13: a step in which a request of an earlier run resolves and is handled
\* neither changes frames_left of the run started since nor adds a request
\* to it.
StalePending ==
    {i \in DOMAIN reqs : reqs[i].run < run_id /\ reqs[i].st = "pending"}

C13_FreshRun ==
    [][(/\ run_id' = run_id
        /\ Cardinality(StalePending') < Cardinality(StalePending)) =>
           /\ frames_left' = frames_left
           /\ Cardinality(RunReqs') = Cardinality(RunReqs)]_vars

\* C14: when the run has ended and every request of it has resolved, every
\* request of the run has been consumed and the buffer is empty.
C14_NothingLeaked ==
    (run_id > 0 /\ ~running /\ \A i \in RunReqs : reqs[i].st # "pending") =>
        /\ \A i \in RunReqs : reqs[i].use = "consumed"
        /\ Len(buffer) = 0

\* the requests, running, frames_left, the buffer and the timers
Session(s) ==
    <<s.reqs, s.running, s.frames_left, s.buffer, s.sequenced_timer,
      s.update_info_timer>>

\* C15: run() on an idle controller whose controls hold start > end issues no
\* request and leaves running, frames_left, the buffer and the timers as
\* they are.
C15_InvalidRangeRejected ==
    ~running =>
        \A start \in 0..MaxEndFrame : \A end \in 0..MaxEndFrame :
            Wrapper_gt(start, end) =>
                LET s == [Self EXCEPT !.start_frame_control = start,
                                      !.end_frame_control = end]
                IN  Session(run(s)) = Session(s)

\* C16: a start while a run is running (the button is unchecked although
\* running is true, so that a click calls run()) issues no request and
\* leaves frames_left, the buffer, the start time and the range of the run
\* as they are.
C16_SecondStartRejected ==
    (running /\ ~run_abort_checked) =>
        LET again == click(Self)
        IN  /\ again.reqs = reqs
            /\ again.frames_left = frames_left
            /\ again.buffer = buffer
            /\ again.elapsed = elapsed
            /\ again.start_frame = start_frame
            /\ again.end_frame = end_frame
            /\ again.total_frames = total_frames

\* C17: run() with Clear cache set and vs_clear_cache() failing raises,
\* issues no request and leaves running, frames_left, the buffer and the
\* timers as they are.
C17_PrepFailureBeforeStart ==
    LET s == [Self EXCEPT !.clear_cache_enabled = TRUE,
                          !.clear_cache_fails = TRUE]
        failed == run(s)
    IN  /\ failed.raised # "none"
        /\ Session(failed) = Session(s)
        /\ failed.elapsed = elapsed

\* the button has been clicked and run() has failed in vs_clear_cache():
\* the button is checked and the controls are disabled, nothing runs
C17_Witness ==
    run_abort_checked /\ ~controls_enabled /\ ~running /\ reqs = <<>>

\* C18: for Frames a >= b, a - b is a FrameInterval >= 0 and b + (a - b)
\* is a Frame equal to a.
C18_SubtractThenAdd ==
    Wrapper_ge(frame_a, frame_b) =>
        LET difference == Frame_sub_Frame(frame_a, frame_b)
            sum == Frame_add(frame_b, difference)
        IN  /\ Wrapper_ge(difference, 0)
            /\ sum # ValueError
            /\ Wrapper_eq(sum, frame_a)

\* C19: no Frame object holds a negative value.
C19_FrameNeverNegative ==
    /\ Wrapper_ge(frame_a, 0)
    /\ Wrapper_ge(frame_b, 0)

\* C20: at every frame rate above 0, converting a Frame to a Time and back
\* gives a Frame at most one frame away.
C20_RoundTripWithinOne ==
    fps_num > 0 =>
        LET fps == Output_fps(fps_num, fps_den)
            back == to_frame(to_time(frame_a, fps), fps)
        IN  /\ back # ValueError
            /\ Abs(back - frame_a) <= 1

\* C21: no output has a frame rate of 0 (or less): a step that computes a
\* new Time with to_time is never taken with fps = 0.
C21_ZeroRateRejected ==
    [][time' # time => Output_fps(fps_num, fps_den).n > 0]_vars

\* the comparisons of two wrapped values agree with those of the values
Ordered(x, y) ==
    /\ Wrapper_eq(x, y) <=> x = y
    /\ Wrapper_gt(x, y) <=> x > y
    /\ Wrapper_lt(x, y) <=> x < y
    /\ Wrapper_le(x, y) <=> ~Wrapper_gt(x, y)
    /\ Wrapper_ge(x, y) <=> (Wrapper_eq(x, y) \/ Wrapper_gt(x, y))
    /\ Wrapper_ne(x, y) <=> ~Wrapper_eq(x, y)
    /\ Cardinality({c \in {"lt", "eq", "gt"} :
                       \/ c = "lt" /\ Wrapper_lt(x, y)
                       \/ c = "eq" /\ Wrapper_eq(x, y)
                       \/ c = "gt" /\ Wrapper_gt(x, y)}) = 1

\* C22: of two Frames, two FrameIntervals or two Times exactly one of <, ==
\* and > holds, <= is not >, >= is == or >, != is not ==, and each agrees
\* with the comparison of the underlying values.
C22_TotalOrder ==
    /\ Ordered(frame_a, frame_b) /\ Ordered(frame_b, frame_a)
    /\ \A other \in Frames : Ordered(interval, other) /\ Ordered(other, interval)
    /\ \A frame \in 0..MaxFrame :
           LET other == to_time(frame, Output_fps(fps_num, fps_den))
           IN  Ordered(time, other) /\ Ordered(other, time)

\* two different Frames, a Time that is not 0
C22_Witness ==
    /\ frame_a > 0 /\ frame_b > frame_a
    /\ time > 0 /\ interval < 0

\* C23: in an Unsequenced run in which futures may have resolved before
\* their callback is registered, no frame is requested twice, none outside
\* the range, and frames_left is never negative.
C23_ReentrantCompletion ==
    run_id > 0 =>
        /\ \A i \in RunReqs : \A j \in RunReqs :
               reqs[i].idx = reqs[j].idx => i = j
        /\ \A i \in RunReqs : reqs[i].idx \in Range
        /\ Wrapper_ge(frames_left, 0)

\* the requests of run r, in the order they were issued
Issued(requests, r) == SelectSeq(requests, LAMBDA request : request.run = r)

C25_SequencedAscending ==
    (run_id > 0 /\ ~unsequenced) =>
        LET issued == Issued(reqs, run_id)
        IN  \A i \in DOMAIN issued : \A j \in DOMAIN issued :
                i < j => issued[i].idx < issued[j].idx

\* C26: in a Sequenced run, the future a dispatch step is about to pop is
\* the oldest request of the run that has not been consumed, and every
\* consumed request has resolved.
C26_SequencedFifo ==
    (run_id > 0 /\ ~unsequenced) =>
        /\ (sequenced_timer /\ frames_left > 0 /\ Len(buffer) > 0) =>
               LET waited == buffer[Len(buffer)]
               IN  /\ reqs[waited].run = run_id
                   /\ \A i \in RunReqs :
                          reqs[i].use # "consumed" => waited <= i
        /\ \A i \in RunReqs :
               reqs[i].use = "consumed" => reqs[i].st # "pending"

\* C27: a run the user has aborted, whose requests all resolve successfully,
\* has requested the frames start_frame .. start_frame + k - 1 for some k,
\* each of them once.
C27_ContiguousPrefix ==
    (run_id > 0 /\ user_aborted /\ AllOk) =>
        \E k \in 0..total_frames :
            /\ \A i \in RunReqs :
                   reqs[i].idx \in start_frame..(start_frame + k - 1)
            /\ \A frame \in start_frame..(start_frame + k - 1) :
                   Cardinality(Requested(frame)) = 1

\* C28: in an Unsequenced run no request is issued by a tick of
\* sequenced_timer, and no tick changes frames_left.
C28_SequencedStepOnlyWhenSequenced ==
    (run_id > 0 /\ unsequenced) =>
        /\ \A i \in RunReqs : reqs[i].by # "tick"
        /\ (sequenced_timer /\ ResultReady) =>
               request_next_frame_sequenced(Self).frames_left = frames_left

\* C29: in a Sequenced run whose requests all resolve successfully, a
\* dispatch step that finds frames_left > 0 finds
\* min(total_frames, concurrency) futures in the buffer.
C29_BufferHoldsWindow ==
    (run_id > 0 /\ ~unsequenced /\ AllOk /\ sequenced_timer
        /\ Wrapper_gt(frames_left, 0)) =>
        Len(buffer) = IF total_frames < concurrency THEN total_frames
                      ELSE concurrency

\* a dispatch step has popped and appended, another will
C29_Witness ==
    /\ run_id > 0 /\ ~unsequenced /\ AllOk /\ sequenced_timer
    /\ frames_left > 0 /\ total_frames = 3 /\ concurrency = 2
    /\ \E i \in RunReqs : reqs[i].by = "tick"
    /\ Len(buffer) = 2

\* no future has been pushed out of the deque
NoneEvicted(s) == \A i \in DOMAIN s.reqs : s.reqs[i].use # "evicted"

\* C30: no append pushes a future out of the bounded deque: neither run()
\* nor a dispatch step evicts one.
C30_NoEviction ==
    /\ NoneEvicted(Self)
    /\ Len(buffer) <= IF buffer_maxlen = None THEN 0 ELSE buffer_maxlen
    /\ (sequenced_timer /\ ResultReady) =>
           NoneEvicted(request_next_frame_sequenced(Self))
    /\ ~run_abort_checked => NoneEvicted(click(Self))

\* the deque is full after a dispatch step has appended to it
C30_Witness ==
    /\ buffer_maxlen = 2 /\ Len(buffer) = 2
    /\ reqs[buffer[1]].by = "tick"

\* C31: a step that checks or unchecks the button or changes running, and
\* in which run() did not raise (the button was not checked without a run
\* starting), leaves the button checked iff running, and the controls
\* enabled iff not running.
C31_ButtonFollowsRunning ==
    [][(/\ run_abort_checked' # run_abort_checked \/ running' # running
        /\ ~(run_abort_checked' /\ ~run_abort_checked /\ run_id' = run_id)) =>
           /\ run_abort_checked' <=> running'
           /\ controls_enabled' <=> ~running'
           /\ (unsequenced_enabled' <=> ~running')]_vars

\* C32: while Prefetch is unchecked the Unsequenced checkbox is unchecked and
\* disabled, and a run started without Prefetch is Sequenced.
C32_UnsequencedNeedsPrefetch ==
    /\ ~prefetch_checked => ~unsequenced_checked /\ ~unsequenced_enabled
    /\ (run_id > 0 /\ concurrency = 1 /\ get_usable_cpus_count > 1) =>
           ~unsequenced

\* C33: between one run() and the next, no step changes total_frames,
\* start_frame or end_frame.
C33_RangeFixedDuringRun ==
    [][(run_id > 0 /\ run_id' = run_id) =>
           /\ total_frames' = total_frames
           /\ start_frame' = start_frame
           /\ end_frame' = end_frame]_vars

\* two frames of a Sequenced run over [0, 2] have been counted
C33_Witness ==
    /\ running /\ ~unsequenced
    /\ start_frame = 0 /\ end_frame = 2 /\ total_frames = 3
    /\ frames_left = 1

\* C34: the range controls hold 0 <= start <= end <= the output's end_frame
\* and total = end - start + 1, and so does every run that was started.
C34_ControlsConsistent ==
    /\ Wrapper_le(0, start_frame_control)
    /\ Wrapper_le(start_frame_control, end_frame_control)
    /\ Wrapper_le(end_frame_control, MaxEndFrame)
    /\ Wrapper_eq(total_frames_control,
                  FrameInterval_add(Frame_sub_Frame(end_frame_control,
                                                    start_frame_control), 1))
    /\ run_id > 0 =>
           /\ Wrapper_le(start_frame, end_frame)
           /\ Wrapper_eq(total_frames,
                  FrameInterval_add(Frame_sub_Frame(end_frame, start_frame),
                                    1))

\* the controls after edits that moved start and end off their defaults
C34_Witness ==
    /\ run_id = 0
    /\ start_frame_control = 1 /\ end_frame_control = MaxEndFrame
    /\ total_frames_control = MaxEndFrame

\* C35: frame_a += interval and frame_a -= interval leave the value that
\* frame_a + interval and frame_a - interval return, and raise when those
\* raise (the in-place operators never raise, so neither may the binary
\* ones); likewise for a FrameInterval.
C35_InPlaceAgrees ==
    /\ Frame_add(frame_a, interval) # ValueError
    /\ Frame_iadd(frame_a, interval) = Frame_add(frame_a, interval)
    /\ Frame_sub(frame_a, interval) # ValueError
    /\ Frame_isub(frame_a, interval) = Frame_sub(frame_a, interval)
    /\ \A other \in Frames :
           /\ FrameInterval_iadd(interval, other)
                  = FrameInterval_add(interval, other)
           /\ FrameInterval_isub(interval, other)
                  = FrameInterval_sub(interval, other)

\* C36: for a Time below 24 hours, to_qtime hands QTime an hour in 0..23, a
\* minute and a second in 0..59 and a millisecond in 0..999 that make up the
\* whole seconds of the Time, and from_qtime gives back the Time truncated
\* to the millisecond.
C36_QTimeRoundTrip ==
    LET c == to_qtime_components(td)
    IN  /\ c.h \in 0..23 /\ c.m \in 0..59 /\ c.s \in 0..59 /\ c.ms \in 0..999
        /\ c.h * 3600 + c.m * 60 + c.s = td.seconds
        /\ from_qtime(to_qtime(td))
               = [seconds |-> td.seconds,
                  microseconds |-> (td.microseconds \div 1000) * 1000]

====
